---------------------------- MODULE Spec2Model ----------------------------
(***************************************************************************)
(* CitySim (include/CitySim.h): a byte-intensity grid grown by a pool of   *)
(* walking agents.  The state is the engine's fields; reset() is one       *)
(* action, step() is followed through its three program positions (entry   *)
(* and bright node, one pass of the agent loop, decay and safety net).     *)
(* Every esp_random() result is an explicit input; the inputs of one       *)
(* step() call are gathered in a record (the "tape" of that call).         *)
(***************************************************************************)
EXTENDS Integers, Naturals, Sequences, FiniteSets, TLC

(* ---------------------------- bounds ---------------------------------- *)
W == 7             \* grid width  (constructor argument w)
H == 6             \* grid height (constructor argument h)
MaxSteps == 3      \* step() calls per run explored by Spec
LongSteps == 2210  \* step() calls per run explored by SpecLong
FullSteps == 402   \* step() calls per run explored by SpecFull
GrowSteps == 1001  \* step() calls per run explored by SpecGrow

(* ------------------------ program constants --------------------------- *)
MAX_AGENTS == 60   \* CitySim::MAX_AGENTS

VARIABLES grid, agents, agentCount, seedX, seedY, steps, nextBrightNodeStep,
          pc, i, tape, grid0, prevActive, nodes, last

vars == <<grid, agents, agentCount, seedX, seedY, steps, nextBrightNodeStep,
          pc, i, tape, grid0, prevActive, nodes, last>>

(* ------------------------ machine arithmetic -------------------------- *)
\* uint8_t, uint16_t and int16_t results.  steps and nextBrightNodeStep are
\* uint32_t; the runs explored stay below LongSteps + 1800, far from 2^32.
U8(n)  == n % 256
U16(n) == n % 65536
I16(n) == ((n + 32768) % 65536) - 32768
Min(a, b) == IF a < b THEN a ELSE b
constrain(v, lo, hi) == IF v < lo THEN lo ELSE IF v > hi THEN hi ELSE v

Cells == 0 .. (W * H - 1)
ZeroGrid == [c \in Cells |-> 0]

\* grid == nullptr: the malloc of line 14 failed
NullGrid == << >>

\* uint8_t get(x, y): grid[y * W + x]
get(g, x, y) == g[y * W + x]

\* the test of lines 87 and 182: outside the interior [1, W-2] x [1, H-2]
OutsideInterior(x, y) == x < 1 \/ x >= W - 1 \/ y < 1 \/ y >= H - 1

(* ------------------------------ grid ---------------------------------- *)
\* addIntensity as it would be with the sum kept in a uint8_t
addIntensityWrap(g, x, y, amt) ==
  LET idx == U16(U16(y) * W + U16(x))
      v   == U8(g[idx] + amt)
  IN  [g EXCEPT ![idx] = IF v > 255 THEN 255 ELSE U8(v)]

\* void addIntensity(x, y, amt): saturating add on one cell
addIntensity(g, x, y, amt) ==
  LET idx == U16(U16(y) * W + U16(x))
      v   == U16(g[idx] + amt)
  IN  [g EXCEPT ![idx] = IF v > 255 THEN 255 ELSE U8(v)]

\* decay as it would be with one more than amt taken from every lit cell
decayOffByOne(g, amt) ==
  [c \in Cells |-> IF g[c] > amt THEN g[c] - amt - 1 ELSE 0]

\* void decay(amt): saturating subtract on every cell
decay(g, amt) ==
  [c \in Cells |-> IF g[c] > amt THEN g[c] - amt ELSE 0]

\* bloomAdd as it would be without the min<int16_t> clamp
bloomAddUnclamped(x, y, strength) ==
  LET d2 == I16(x * x + y * y)
  IN  U8(strength - U8(I16(d2 * 3)))

\* the amount bloom adds at offset (x, y): strength - (uint8_t)min<int16_t>(strength, d2 * 3)
bloomAdd(x, y, strength) ==
  LET d2 == I16(x * x + y * y)
  IN  U8(strength - U8(Min(strength, I16(d2 * 3))))

\* void bloom(cx, cy, radius, strength).  The two loops visit every offset
\* (x, y) in [-radius, radius]^2 once and each offset has its own cell, so the
\* result is given cell by cell: the cell (px, py) is reached by the offset
\* (px - cx, py - cy).
bloom(g, cx, cy, radius, strength) ==
  [c \in Cells |->
    LET px == c % W
        py == c \div W
        x  == px - cx
        y  == py - cy
        d2 == I16(x * x + y * y)
    IN  IF x < -radius \/ x > radius \/ y < -radius \/ y > radius THEN g[c]
        ELSE IF OutsideInterior(px, py) THEN g[c]
        ELSE IF d2 > radius * radius THEN g[c]
        ELSE addIntensity(g, px, py, bloomAdd(x, y, strength))[c]]

(* ------------------------------ pool ---------------------------------- *)
\* `agents` holds the occupied slots agents[0 .. agentCount-1] of the array;
\* slot k of the code is agents[k + 1] here.
Agent(x, y, dx, dy, life) == [x |-> x, y |-> y, dx |-> dx, dy |-> dy, life |-> life]

\* addAgent as it would be with the capacity test off by one
addAgentOffByOne(ags, x, y, dx, dy, life) ==
  IF Len(ags) >= MAX_AGENTS - 1 THEN ags
  ELSE Append(ags, Agent(x, y, dx, dy, life))

\* void addAgent(x, y, dx, dy, life)
addAgent(ags, x, y, dx, dy, life) ==
  IF Len(ags) >= MAX_AGENTS THEN ags
  ELSE Append(ags, Agent(x, y, dx, dy, life))

\* static const int8_t dirs[4][2]
dirs == <<  <<1, 0>>, <<-1, 0>>, <<0, 1>>, <<0, -1>>  >>

\* the k-th of a run of sampled points: the first try draws (x1, y1), the
\* later tries draw (x2, y2)
SampleX(k, x1, x2) == I16(2 + ((IF k = 0 THEN x1 ELSE x2) % (W - 4)))
SampleY(k, y1, y2) == I16(2 + ((IF k = 0 THEN y1 ELSE y2) % (H - 4)))

\* respawnBest as it would be if a later candidate replaced the best one
\* whenever it is lit and below 200, brighter or not
RECURSIVE respawnLast(_, _, _, _)
respawnLast(g, t, k, best) ==
  IF k >= 15 THEN best
  ELSE LET rx == SampleX(k, t.sx1, t.sx2)
           ry == SampleY(k, t.sy1, t.sy2)
           v  == get(g, rx, ry)
       IN  IF v > 0 /\ v < 200
           THEN respawnLast(g, t, k + 1, [x |-> rx, y |-> ry, val |-> v])
           ELSE respawnLast(g, t, k + 1, best)

\* the sampling loop of respawnAgent (lines 144-153), tries k .. 14
RECURSIVE respawnBest(_, _, _, _)
respawnBest(g, t, k, best) ==
  IF k >= 15 THEN best
  ELSE LET rx == SampleX(k, t.sx1, t.sx2)
           ry == SampleY(k, t.sy1, t.sy2)
           v  == get(g, rx, ry)
       IN  IF v > best.val /\ v < 200
           THEN respawnBest(g, t, k + 1, [x |-> rx, y |-> ry, val |-> v])
           ELSE respawnBest(g, t, k + 1, best)

\* void respawnAgent(Agent &a): the agent written into the slot
respawnAgent(g, sx, sy, t) ==
  LET b == respawnBest(g, t, 0, [x |-> sx, y |-> sy, val |-> 0])
      d == (t.dir % 4) + 1
  IN  Agent(b.x, b.y, dirs[d][1], dirs[d][2], U8(200 + (t.life % 55)))

(* --------------------------- bright node ------------------------------ *)
\* the sampling loop of placeBrightNode (lines 198-203), tries k .. 19
RECURSIVE nodeBest(_, _, _, _)
nodeBest(g, t, k, best) ==
  IF k >= 20 THEN best
  ELSE LET x == SampleX(k, t.nx1, t.nx2)
           y == SampleY(k, t.ny1, t.ny2)
           v == get(g, x, y)
       IN  IF v > best.val
           THEN nodeBest(g, t, k + 1, [x |-> x, y |-> y, val |-> v])
           ELSE nodeBest(g, t, k + 1, best)

\* nodeOffset as it would be with offsets of up to 20 cells
nodeOffsetWide(r) == I16((r % 41) - 20)

\* the offset of a spawn from the node (lines 211-212), r the draw
nodeOffset(r) == I16((r % 21) - 10)

\* the spawn loop of placeBrightNode (lines 210-219), passes k .. 4
RECURSIVE nodeSpawn(_, _, _, _, _)
nodeSpawn(ags, bx, by, t, k) ==
  IF ~(k < 5 /\ Len(ags) < MAX_AGENTS) THEN ags
  ELSE LET rx == constrain(I16(bx + nodeOffset(t.nox)), 2, W - 3)
           ry == constrain(I16(by + nodeOffset(t.noy)), 2, H - 3)
           d  == (t.ndir % 4) + 1
       IN  nodeSpawn(addAgent(ags, rx, ry, dirs[d][1], dirs[d][2],
                              U8(200 + (t.nlife % 55))),
                     bx, by, t, k + 1)

\* void placeBrightNode(): the grid and the pool it leaves
placeBrightNode(g, ags, sx, sy, t) ==
  LET b  == nodeBest(g, t, 0, [x |-> sx, y |-> sy, val |-> 0])
      g1 == bloom(g, b.x, b.y, 10, 220)
      g2 == bloom(g1, b.x, b.y, 18, 90)
  IN  [grid |-> g2, agents |-> nodeSpawn(ags, b.x, b.y, t, 0), x |-> b.x, y |-> b.y]

(* ------------------------------ reset --------------------------------- *)
\* the pool reset() builds (lines 25-33)
resetAgents(sx, sy) ==
  addAgent(addAgent(addAgent(addAgent(<< >>, sx, sy, 1, 0, 255),
                             sx, sy, 0, 1, 255),
                    sx, sy, -1, 0, 255),
           sx, sy, 0, -1, 255)

\* the number of occupied slots with life > 0 (lines 109-112)
activeCountOf(ags) == Cardinality({k \in 1 .. Len(ags) : ags[k].life > 0})

\* reset as it would be without the agentCount = 0 of line 25
resetStale(r) ==
  /\ pc = "idle"
  /\ seedX' = I16(W \div 2)
  /\ seedY' = I16(H \div 2)
  /\ agents' = addAgent(addAgent(addAgent(addAgent(agents,
                           seedX', seedY', 1, 0, 255),
                           seedX', seedY', 0, 1, 255),
                           seedX', seedY', -1, 0, 255),
                           seedX', seedY', 0, -1, 255)
  /\ agentCount' = Len(agents')
  /\ grid' = bloom(ZeroGrid, seedX', seedY', 6, 120)
  /\ steps' = 0
  /\ nextBrightNodeStep' = 400 + (r % 600)
  /\ grid0' = grid'
  /\ prevActive' = activeCountOf(agents')
  /\ nodes' = << >>
  /\ last' = [op |-> "reset", steps |-> steps, count |-> agentCount]
  /\ UNCHANGED <<pc, i, tape>>

\* reset() on a missing grid: the return of line 23
resetOnNull ==
  /\ pc = "idle"
  /\ grid = NullGrid
  /\ last' = [op |-> "reset", steps |-> steps, count |-> agentCount]
  /\ UNCHANGED <<grid, agents, agentCount, seedX, seedY, steps,
                 nextBrightNodeStep, pc, i, tape, grid0, prevActive, nodes>>

\* void reset(), r the esp_random() result of line 38
reset(r) ==
  /\ pc = "idle"
  /\ grid # NullGrid
  /\ seedX' = I16(W \div 2)
  /\ seedY' = I16(H \div 2)
  /\ agents' = resetAgents(seedX', seedY')
  /\ agentCount' = Len(agents')
  /\ grid' = bloom(ZeroGrid, seedX', seedY', 6, 120)
  /\ steps' = 0
  /\ nextBrightNodeStep' = 400 + (r % 600)
  /\ grid0' = grid'
  /\ prevActive' = activeCountOf(agents')
  /\ nodes' = << >>
  /\ last' = [op |-> "reset", steps |-> steps, count |-> agentCount]
  /\ UNCHANGED <<pc, i, tape>>

(* ------------------------------- step --------------------------------- *)
\* stepBegin as it would be with > for the >= of line 46
stepBeginLate(t) ==
  /\ pc = "idle"
  /\ steps' = steps + 1
  /\ IF steps' > nextBrightNodeStep
     THEN LET n == placeBrightNode(grid, agents, seedX, seedY, t)
          IN  /\ grid' = n.grid
              /\ agents' = n.agents
              /\ nextBrightNodeStep' = steps' + 600 + (t.sched % 1200)
     ELSE UNCHANGED <<grid, agents, nextBrightNodeStep>>
  /\ agentCount' = Len(agents')
  /\ i' = 0
  /\ pc' = IF 0 < agentCount' THEN "agents" ELSE "tail"
  /\ tape' = t
  /\ grid0' = grid
  /\ prevActive' = activeCountOf(agents)
  /\ nodes' = IF steps' > nextBrightNodeStep THEN Append(nodes, steps') ELSE nodes
  /\ last' = [op |-> "stepBegin", node |-> (steps' > nextBrightNodeStep),
              due |-> nextBrightNodeStep]
  /\ UNCHANGED <<seedX, seedY>>

\* step(), lines 43-49: the counter, the bright node and its schedule; t holds
\* the esp_random() results of this call.  History: grid0 and prevActive keep
\* the grid and the number of active agents the call found, nodes the steps
\* of the bright nodes placed since reset(), last the operation just done.
stepBegin(t) ==
  /\ pc = "idle"
  /\ grid # NullGrid
  /\ steps' = steps + 1
  /\ IF steps' >= nextBrightNodeStep
     THEN LET n == placeBrightNode(grid, agents, seedX, seedY, t)
          IN  /\ grid' = n.grid
              /\ agents' = n.agents
              /\ nextBrightNodeStep' = steps' + 600 + (t.sched % 1200)
     ELSE UNCHANGED <<grid, agents, nextBrightNodeStep>>
  /\ agentCount' = Len(agents')
  /\ i' = 0
  /\ pc' = IF 0 < agentCount' THEN "agents" ELSE "tail"
  /\ tape' = t
  /\ grid0' = grid
  /\ prevActive' = activeCountOf(agents)
  /\ nodes' = IF steps' >= nextBrightNodeStep THEN Append(nodes, steps') ELSE nodes
  /\ last' = [op |-> "stepBegin", node |-> (steps' >= nextBrightNodeStep),
              due |-> nextBrightNodeStep]
  /\ UNCHANGED <<seedX, seedY>>

\* step() on a missing grid.  No line of step() tests grid: the counter is
\* advanced and, nextBrightNodeStep being 0, placeBrightNode reads and writes
\* through the null pointer (lines 201, 167).  That is undefined: the access
\* traps ("fault") or goes to whatever memory is there ("stray").
stepOnNull ==
  /\ pc = "idle"
  /\ grid = NullGrid
  /\ steps' = steps + 1
  /\ pc' \in {"fault", "stray"}
  /\ last' = [op |-> "stepBegin", node |-> (steps' >= nextBrightNodeStep),
              due |-> nextBrightNodeStep]
  /\ UNCHANGED <<grid, agents, agentCount, seedX, seedY, nextBrightNodeStep,
                 i, tape, grid0, prevActive, nodes>>

\* a call of get(x, y) by the caller (main.cpp line 194): a read of
\* grid[y * W + x], undefined on a missing grid
getCall(x, y) ==
  /\ pc = "idle"
  /\ pc' \in IF grid = NullGrid THEN {"fault", "stray"} ELSE {pc}
  /\ last' = [op |-> "get", x |-> x, y |-> y,
              v |-> IF grid = NullGrid THEN 0 ELSE get(grid, x, y)]
  /\ UNCHANGED <<grid, agents, agentCount, seedX, seedY, steps,
                 nextBrightNodeStep, i, tape, grid0, prevActive, nodes>>

\* turned as it would be without the temporaries ndx, ndy: the second
\* assignment reads the dx the first has just written
turnedInPlace(a, r) ==
  IF r < 40 THEN [dx |-> -a.dy, dy |-> -a.dy]
  ELSE IF r < 80 THEN [dx |-> a.dy, dy |-> -a.dy]
  ELSE [dx |-> a.dx, dy |-> a.dy]

\* the direction after the random turn (lines 63-72)
turned(a, r) ==
  IF r < 40 THEN [dx |-> -a.dy, dy |-> a.dx]
  ELSE IF r < 80 THEN [dx |-> a.dy, dy |-> -a.dx]
  ELSE [dx |-> a.dx, dy |-> a.dy]

\* the direction of a branch (lines 77-78), d the parent's direction
branchDir(d, bit) ==
  LET ndx == IF bit % 2 = 1 THEN -d.dy ELSE d.dy
      ndy == IF ndx = -d.dy THEN d.dx ELSE -d.dx
  IN  [dx |-> ndx, dy |-> ndy]

\* branch as it would be with the spawn written in place and no capacity test
branchUnchecked(ags, x, y, d, t) ==
  IF (t.branch % 1000) < 30
  THEN LET n == branchDir(d, t.side)
       IN  Append(ags, Agent(x, y, n.dx, n.dy, U8(140 + (t.blife % 100))))
  ELSE ags

\* lines 74-80: the pool after the branch of an agent at (x, y) heading d
branch(ags, x, y, d, t) ==
  IF Len(ags) < MAX_AGENTS /\ (t.branch % 1000) < 30
  THEN LET n == branchDir(d, t.side)
       IN  addAgent(ags, x, y, n.dx, n.dy, U8(140 + (t.blife % 100)))
  ELSE ags

\* moved as it would be with the bounce taken at the grid's edge instead of
\* the interior's
movedToEdge(a, d) ==
  LET x == I16(a.x + d.dx)
      y == I16(a.y + d.dy)
  IN  IF x < 0 \/ x >= W \/ y < 0 \/ y >= H
      THEN Agent(constrain(x, 0, W - 1), constrain(y, 0, H - 1), -d.dx, -d.dy,
                 IF a.life > 30 THEN a.life - 30 ELSE 0)
      ELSE Agent(x, y, d.dx, d.dy, IF a.life # 0 THEN a.life - 1 ELSE a.life)

\* moved as it would be without the two constrain calls of lines 88-89
movedNoClamp(a, d) ==
  LET x == I16(a.x + d.dx)
      y == I16(a.y + d.dy)
  IN  IF OutsideInterior(x, y)
      THEN Agent(x, y, -d.dx, -d.dy, IF a.life > 30 THEN a.life - 30 ELSE 0)
      ELSE Agent(x, y, d.dx, d.dy, IF a.life # 0 THEN a.life - 1 ELSE a.life)

\* moved as it would be with a bounce costing 1 of life, like a plain move
movedCheapBounce(a, d) ==
  LET x == I16(a.x + d.dx)
      y == I16(a.y + d.dy)
  IN  IF OutsideInterior(x, y)
      THEN Agent(constrain(x, 1, W - 2), constrain(y, 1, H - 2), -d.dx, -d.dy,
                 IF a.life # 0 THEN a.life - 1 ELSE a.life)
      ELSE Agent(x, y, d.dx, d.dy, IF a.life # 0 THEN a.life - 1 ELSE a.life)

\* lines 82-97: move, bounce off the edges, age
moved(a, d) ==
  LET x == I16(a.x + d.dx)
      y == I16(a.y + d.dy)
  IN  IF OutsideInterior(x, y)
      THEN Agent(constrain(x, 1, W - 2), constrain(y, 1, H - 2), -d.dx, -d.dy,
                 IF a.life > 30 THEN a.life - 30 ELSE 0)
      ELSE Agent(x, y, d.dx, d.dy, IF a.life # 0 THEN a.life - 1 ELSE a.life)

\* updateAgent as it would be without the test of line 54: a dormant agent
\* is updated like an active one
updateAgentAll(g, ags, k, sx, sy, t) ==
  LET a  == ags[k + 1]
      g1 == addIntensity(g, a.x, a.y, 35)
      g2 == IF (t.light % 100) < 25 THEN addIntensity(g1, a.x, a.y, 45) ELSE g1
      d  == turned(a, t.turn % 1000)
      p  == branch(ags, a.x, a.y, d, t)
      m  == moved(a, d)
      n  == IF m.life = 0 /\ (t.revive % 100) < 15
            THEN respawnAgent(g2, sx, sy, t) ELSE m
  IN  [grid |-> g2, agents |-> [p EXCEPT ![k + 1] = n]]

\* one pass of the agent loop (lines 53-102) on slot k: the grid and the pool
\* it leaves
updateAgent(g, ags, k, sx, sy, t) ==
  LET a  == ags[k + 1]
      g1 == addIntensity(g, a.x, a.y, 35)
      g2 == IF (t.light % 100) < 25 THEN addIntensity(g1, a.x, a.y, 45) ELSE g1
      d  == turned(a, t.turn % 1000)
      p  == branch(ags, a.x, a.y, d, t)
      m  == moved(a, d)
      n  == IF m.life = 0 /\ (t.revive % 100) < 15
            THEN respawnAgent(g2, sx, sy, t) ELSE m
  IN  IF a.life = 0 THEN [grid |-> g, agents |-> ags]
      ELSE [grid |-> g2, agents |-> [p EXCEPT ![k + 1] = n]]

\* the draws slot k finds on tape t in step n: the branch draw of line 75 is
\* t.branch in the slots that are multiples of t.every while n <= t.until,
\* and t.rest in every other call
slotTape(t, n, k) ==
  IF k % t.every = 0 /\ n <= t.until THEN t ELSE [t EXCEPT !.branch = t.rest]

\* step(), lines 52-103: the loop body for slot i, and the loop test.
\* History: last keeps the slot, the agent it held and the occupied count
\* before the pass.
agentUpdate ==
  /\ pc = "agents"
  /\ LET u == updateAgent(grid, agents, i, seedX, seedY,
                          slotTape(tape, steps, i))
     IN  /\ grid' = u.grid
         /\ agents' = u.agents
  /\ agentCount' = Len(agents')
  /\ i' = U8(i + 1)
  /\ pc' = IF i' < agentCount' THEN "agents" ELSE "tail"
  /\ last' = [op |-> "agentUpdate", slot |-> i, was |-> agents[i + 1],
              count |-> agentCount]
  /\ UNCHANGED <<seedX, seedY, steps, nextBrightNodeStep, tape, grid0,
                 prevActive, nodes>>

\* safetyNet as it would be if the pass freed the dormant slots, moving the
\* later agents down, instead of respawning in place
safetyNetCompact(ags, g, sx, sy, t, k, active) ==
  SelectSeq(ags, LAMBDA a : a.life > 0)

\* safetyNet as it would be if the pass stopped at the trigger threshold 8
RECURSIVE safetyNetToEight(_, _, _, _, _, _, _)
safetyNetToEight(ags, g, sx, sy, t, k, active) ==
  IF ~(k < Len(ags) /\ active < 8) THEN ags
  ELSE IF ags[k + 1].life = 0
       THEN safetyNetToEight([ags EXCEPT ![k + 1] = respawnAgent(g, sx, sy, t)],
                             g, sx, sy, t, U8(k + 1), U8(active + 1))
       ELSE safetyNetToEight(ags, g, sx, sy, t, U8(k + 1), active)

\* safetyNet as it would be if the pass stopped after its first respawn
RECURSIVE safetyNetOnce(_, _, _, _, _, _, _)
safetyNetOnce(ags, g, sx, sy, t, k, active) ==
  IF ~(k < Len(ags) /\ active < 12) THEN ags
  ELSE IF ags[k + 1].life = 0
       THEN [ags EXCEPT ![k + 1] = respawnAgent(g, sx, sy, t)]
       ELSE safetyNetOnce(ags, g, sx, sy, t, U8(k + 1), active)

\* the forced respawns of lines 116-121, slots k .. agentCount-1
RECURSIVE safetyNet(_, _, _, _, _, _, _)
safetyNet(ags, g, sx, sy, t, k, active) ==
  IF ~(k < Len(ags) /\ active < 12) THEN ags
  ELSE IF ags[k + 1].life = 0
       THEN safetyNet([ags EXCEPT ![k + 1] = respawnAgent(g, sx, sy, t)],
                      g, sx, sy, t, U8(k + 1), U8(active + 1))
       ELSE safetyNet(ags, g, sx, sy, t, U8(k + 1), active)

\* stepEnd as it would be with the decay on every 50th step
stepEndEager ==
  /\ pc = "tail"
  /\ grid' = IF (steps % 50) = 0 THEN decay(grid, 1) ELSE grid
  /\ agents' = IF activeCountOf(agents) < 8
               THEN safetyNet(agents, grid', seedX, seedY, tape, 0, activeCountOf(agents))
               ELSE agents
  /\ agentCount' = Len(agents')
  /\ pc' = "idle"
  /\ i' = 0
  /\ last' = [op |-> "stepEnd", active |-> activeCountOf(agents)]
  /\ UNCHANGED <<seedX, seedY, steps, nextBrightNodeStep, tape, grid0,
                 prevActive, nodes>>

\* step(), lines 105-122: the decay every 500 steps and the safety net
stepEnd ==
  /\ pc = "tail"
  /\ grid' = IF (steps % 500) = 0 THEN decay(grid, 1) ELSE grid
  /\ agents' = IF activeCountOf(agents) < 8
               THEN safetyNet(agents, grid', seedX, seedY, tape, 0, activeCountOf(agents))
               ELSE agents
  /\ agentCount' = Len(agents')
  /\ pc' = "idle"
  /\ i' = 0
  /\ last' = [op |-> "stepEnd", active |-> activeCountOf(agents)]
  /\ UNCHANGED <<seedX, seedY, steps, nextBrightNodeStep, tape, grid0,
                 prevActive, nodes>>

(* ------------------------- the random inputs --------------------------- *)
\* The esp_random() results one step() call uses.  In the agent loop: light
\* (line 60), turn (63), branch (75), side (77), blife (79), revive (100).
\* In respawnAgent: sx1, sy1 (first try of lines 145-146), sx2, sy2 (the
\* later tries), dir (156), life (161).  In placeBrightNode: nx1, ny1, nx2,
\* ny2 (lines 199-200), nox, noy (211-212), ndir (217), nlife (218).  sched
\* is the draw of line 48.  every and rest say which slots draw branch.
QuietTape ==
  [light |-> 25, turn |-> 80, branch |-> 30, every |-> 1,
   until |-> LongSteps + 1, rest |-> 30,
   side |-> 0, blife |-> 0,
   revive |-> 15, sx1 |-> 0, sy1 |-> 0, sx2 |-> 0, sy2 |-> 0, dir |-> 0,
   life |-> 0, nx1 |-> 0, ny1 |-> 0, nx2 |-> 0, ny2 |-> 0, nox |-> 10,
   noy |-> 10, ndir |-> 0, nlife |-> 0, sched |-> 0]

\* the tapes Spec draws from, one per step() call
Tapes ==
  { QuietTape,
    [QuietTape EXCEPT !.light = 24, !.turn = 39],
    [QuietTape EXCEPT !.turn = 79],
    [QuietTape EXCEPT !.branch = 29, !.side = 1, !.blife = 99],
    [QuietTape EXCEPT !.branch = 1000, !.side = 2, !.light = 124] }

\* the tapes SpecLong draws from, one per run
LongTapes ==
  { QuietTape,
    [QuietTape EXCEPT !.light = 24, !.revive = 14, !.sx1 = 1, !.sy2 = 1,
                      !.dir = 6, !.life = 54, !.nx2 = 1, !.ny1 = 1, !.nox = 0,
                      !.noy = 20, !.ndir = 3, !.nlife = 54, !.sched = 1199] }

\* the tapes SpecFull draws from, one per run: every active agent branches
FullTapes ==
  { [QuietTape EXCEPT !.branch = 29, !.side = 1, !.blife = 99, !.nox = 20],
    [QuietTape EXCEPT !.branch = 0, !.turn = 39, !.ndir = 2, !.nlife = 54] }

\* the tapes SpecGrow draws from, one per run: some slots branch during the
\* first steps, so that the bright nodes find a pool with room for five
\* agents, with room for fewer, and with none
GrowTapes ==
  { [QuietTape EXCEPT !.branch = 29, !.every = 10, !.until = 20, !.side = 1,
                      !.blife = 99, !.nox = 20, !.noy = 0, !.ndir = 1,
                      !.nlife = 54, !.nx1 = 2, !.ny1 = 2],
    [QuietTape EXCEPT !.branch = 0, !.every = 7, !.until = 14, !.turn = 79,
                      !.light = 24, !.sx1 = 1, !.sy2 = 1, !.dir = 6,
                      !.life = 54, !.nx2 = 1, !.ny2 = 3, !.nox = 0,
                      !.noy = 20, !.ndir = 3],
    [QuietTape EXCEPT !.branch = 1029, !.every = 8, !.until = 16, !.side = 2,
                      !.turn = 39, !.revive = 14, !.sx2 = 3, !.sy1 = 2,
                      !.dir = 3, !.life = 27, !.ndir = 2, !.sched = 1] }

\* the draws of line 38 the specifications use
ResetDraws == {0, 599}

(* --------------------------- specifications --------------------------- *)
\* the state the constructor leaves (lines 12-16: it calls reset())
Constructed ==
  /\ seedX = I16(W \div 2)
  /\ seedY = I16(H \div 2)
  /\ agents = resetAgents(seedX, seedY)
  /\ agentCount = Len(agents)
  /\ grid = bloom(ZeroGrid, seedX, seedY, 6, 120)
  /\ steps = 0
  /\ \E r \in ResetDraws : nextBrightNodeStep = 400 + (r % 600)
  /\ pc = "idle"
  /\ i = 0
  /\ grid0 = grid
  /\ prevActive = activeCountOf(agents)
  /\ nodes = << >>
  /\ last = [op |-> "construct"]

\* the state the constructor leaves when malloc returns nullptr: reset()
\* returns at line 23 and the fields keep their initializers (lines 224-232)
ConstructedNull ==
  /\ grid = NullGrid
  /\ agents = << >>
  /\ agentCount = 0
  /\ seedX = 0 /\ seedY = 0
  /\ steps = 0
  /\ nextBrightNodeStep = 0
  /\ pc = "idle"
  /\ i = 0
  /\ grid0 = grid
  /\ prevActive = 0
  /\ nodes = << >>
  /\ last = [op |-> "construct"]

Init == Constructed /\ tape = QuietTape

Reset == \E r \in ResetDraws : reset(r)

Step == steps < MaxSteps /\ \E t \in Tapes : stepBegin(t)

AgentUpdate == agentUpdate

StepEnd == stepEnd

Next == Reset \/ Step \/ AgentUpdate \/ StepEnd

Spec == Init /\ [][Next]_vars

\* construction with either outcome of malloc, then the calls main.cpp makes
InitAlloc == (Constructed \/ ConstructedNull) /\ tape = QuietTape

ResetOnNull == resetOnNull

StepOnNull == stepOnNull

Get == \E x \in {0, W - 1}, y \in {0, H - 1} : getCall(x, y)

NextAlloc == Reset \/ ResetOnNull \/ Step \/ StepOnNull \/ AgentUpdate \/ StepEnd \/ Get

SpecAlloc == InitAlloc /\ [][NextAlloc]_vars

\* long runs: one tape per run, so that the counter reaches the decay and
\* bright-node steps
InitLong == Constructed /\ tape \in LongTapes

StepLong == steps < LongSteps /\ stepBegin(tape)

NextLong == Reset \/ StepLong \/ AgentUpdate \/ StepEnd

SpecLong == InitLong /\ [][NextLong]_vars

\* full pool: every active agent branches, up to the first bright node
InitFull == Constructed /\ tape \in FullTapes

StepFull == steps < FullSteps /\ stepBegin(tape)

NextFull == Reset \/ StepFull \/ AgentUpdate \/ StepEnd

SpecFull == InitFull /\ [][NextFull]_vars

\* growing pool: branches in some slots, turns, deaths, revivals and bright
\* nodes in one run
InitGrow == Constructed /\ tape \in GrowTapes

StepGrow == steps < GrowSteps /\ stepBegin(tape)

NextGrow == Reset \/ StepGrow \/ AgentUpdate \/ StepEnd

SpecGrow == InitGrow /\ [][NextGrow]_vars

(* ------------------- the grid's functions on their own ----------------- *)
\* the fields the functions below do not touch
Idle ==
  /\ agents = << >> /\ agentCount = 0
  /\ seedX = I16(W \div 2) /\ seedY = I16(H \div 2)
  /\ steps = 0 /\ nextBrightNodeStep = 0
  /\ i = 0 /\ tape = QuietTape /\ prevActive = 0 /\ nodes = << >>

IdleUnchanged ==
  UNCHANGED <<agents, agentCount, seedX, seedY, steps, nextBrightNodeStep,
              pc, i, tape, prevActive, nodes>>

\* addIntensity and decay: every cell value and every amount of a byte
Bytes == 0 .. 255

InitArith ==
  /\ Idle
  /\ pc = "arith"
  /\ \E v \in Bytes : grid = [c \in Cells |-> v]
  /\ grid0 = grid
  /\ last = [op |-> "input"]

AddIntensity ==
  /\ pc = "arith" /\ last.op = "input"
  /\ \E x \in {1, W - 2}, amt \in Bytes :
       /\ grid' = addIntensity(grid, x, H - 2, amt)
       /\ last' = [op |-> "addIntensity", x |-> x, y |-> H - 2, amt |-> amt]
  /\ grid0' = grid
  /\ IdleUnchanged

Decay ==
  /\ pc = "arith" /\ last.op = "input"
  /\ \E amt \in Bytes :
       /\ grid' = decay(grid, amt)
       /\ last' = [op |-> "decay", amt |-> amt]
  /\ grid0' = grid
  /\ IdleUnchanged

NextArith == AddIntensity \/ Decay

SpecArith == InitArith /\ [][NextArith]_vars

\* bloom: every interior centre, the radii and strengths below, on a uniform
\* grid
Radii == {0, 1, 2, 3, 6, 10, 18}
Strengths == {0, 1, 5, 90, 120, 220, 255}
Bases == {0, 100, 250}

InitBloom ==
  /\ Idle
  /\ pc = "bloom"
  /\ \E v \in Bases : grid = [c \in Cells |-> v]
  /\ grid0 = grid
  /\ last = [op |-> "input"]

Bloom ==
  /\ pc = "bloom" /\ last.op = "input"
  /\ \E cx \in 1 .. W - 2, cy \in 1 .. H - 2, r \in Radii, s \in Strengths :
       /\ grid' = bloom(grid, cx, cy, r, s)
       /\ last' = [op |-> "bloom", cx |-> cx, cy |-> cy, r |-> r, s |-> s]
  /\ grid0' = grid
  /\ IdleUnchanged

NextBloom == Bloom

SpecBloom == InitBloom /\ [][NextBloom]_vars

\* respawnAgent on its own: a dormant agent in slot 0, a grid whose interior
\* holds w but for two cells holding u and v, and the draws below
Levels == {0, 1, 120, 199, 200, 255}

ReviveGrids ==
  { [c \in Cells |->
       IF OutsideInterior(c % W, c \div W) THEN 0
       ELSE IF c = 2 * W + 2 THEN u
       ELSE IF c = 3 * W + 4 THEN v
       ELSE w] : u \in Levels, v \in Levels, w \in {0, 120, 200} }

ReviveTapes ==
  { [QuietTape EXCEPT !.sx1 = x1, !.sy1 = y1, !.sx2 = x2, !.sy2 = y2,
                      !.dir = d, !.life = 27 * d]
      : x1 \in {0, 2}, y1 \in {0, 1}, x2 \in {0, 1, 5}, y2 \in {0, 3},
        d \in {0, 1, 2, 7} }

InitRevive ==
  /\ seedX = I16(W \div 2) /\ seedY = I16(H \div 2)
  /\ agents = <<Agent(1, 1, 1, 0, 0)>>
  /\ agentCount = 1
  /\ steps = 1 /\ nextBrightNodeStep = 400
  /\ i = 0 /\ tape = QuietTape /\ prevActive = 0 /\ nodes = << >>
  /\ pc = "revive"
  /\ grid \in ReviveGrids
  /\ grid0 = grid
  /\ last = [op |-> "input"]

RespawnAgent ==
  /\ pc = "revive" /\ last.op = "input"
  /\ \E t \in ReviveTapes :
       /\ agents' = [agents EXCEPT ![1] = respawnAgent(grid, seedX, seedY, t)]
       /\ tape' = t
  /\ last' = [op |-> "respawnAgent"]
  /\ UNCHANGED <<grid, agentCount, seedX, seedY, steps, nextBrightNodeStep,
                 pc, i, grid0, prevActive, nodes>>

NextRevive == RespawnAgent

SpecRevive == InitRevive /\ [][NextRevive]_vars

\* placeBrightNode on its own: the grids above, a pool of n agents on the
\* seed, and the draws below
PoolSizes == {0, 54, 55, 56, 57, 58, 59, 60}

NodeTapes ==
  { [QuietTape EXCEPT !.nx1 = x1, !.ny1 = y1, !.nx2 = x2, !.ny2 = 3,
                      !.nox = ox, !.noy = 30 - ox, !.ndir = x2 + y1,
                      !.nlife = 27 * y1]
      : x1 \in {0, 2}, y1 \in {0, 1}, x2 \in {0, 1, 5}, ox \in {0, 10, 20} }

InitNode ==
  /\ seedX = I16(W \div 2) /\ seedY = I16(H \div 2)
  /\ \E n \in PoolSizes : agents = [k \in 1 .. n |-> Agent(seedX, seedY, 1, 0, 1)]
  /\ agentCount = Len(agents)
  /\ steps = 400 /\ nextBrightNodeStep = 400
  /\ i = 0 /\ tape = QuietTape /\ prevActive = agentCount /\ nodes = << >>
  /\ pc = "node"
  /\ grid \in ReviveGrids
  /\ grid0 = grid
  /\ last = [op |-> "input"]

PlaceBrightNode ==
  /\ pc = "node" /\ last.op = "input"
  /\ \E t \in NodeTapes :
       LET n == placeBrightNode(grid, agents, seedX, seedY, t)
       IN  /\ grid' = n.grid
           /\ agents' = n.agents
           /\ tape' = t
  /\ agentCount' = Len(agents')
  /\ last' = [op |-> "placeBrightNode"]
  /\ UNCHANGED <<seedX, seedY, steps, nextBrightNodeStep, pc, i, grid0,
                 prevActive, nodes>>

NextNode == PlaceBrightNode

SpecNode == InitNode /\ [][NextNode]_vars

TypeOK ==
  /\ grid = NullGrid \/ grid \in [Cells -> 0 .. 255]
  /\ agentCount = Len(agents)
  /\ pc \in {"idle", "agents", "tail", "arith", "bloom", "revive", "node",
           "fault", "stray"}
  /\ i \in 0 .. MAX_AGENTS
  /\ pc = "agents" => i < agentCount
  /\ \A k \in 1 .. Len(agents) : agents[k].life \in 0 .. 255

(* ------------------------------ claims -------------------------------- *)
\* C1 (capacity ceiling): in every state, between calls and at every
\* position inside step(), the occupied count is at most MAX_AGENTS and the
\* occupied slots fit the array.
CapacityCeiling ==
  /\ agentCount <= MAX_AGENTS
  /\ Len(agents) <= MAX_AGENTS

\* a bright node was placed on a full pool, after branches had filled it and
\* further branches were drawn on the full pool
CapacityCeilingWitness ==
  /\ last.op = "stepBegin" /\ last.node
  /\ agentCount = MAX_AGENTS
  /\ (tape.branch % 1000) < 30
  /\ steps > 1

OnBorder(c) == c % W = 0 \/ c % W = W - 1 \/ c \div W = 0 \/ c \div W = H - 1

\* C2 (interior containment): every cell of the outermost one-cell border
\* holds 0 in every state, whatever blooms and agent writes have happened.
InteriorContainment == \A c \in Cells : OnBorder(c) => grid[c] = 0

\* a bright node has just stamped its two blooms, an agent has bounced off an
\* edge, and every interior cell is lit
InteriorContainmentWitness ==
  /\ last.op = "stepBegin" /\ last.node
  /\ \A c \in Cells : ~OnBorder(c) => grid[c] > 0
  /\ \E k \in 1 .. Len(agents) :
       agents[k].x \in {1, W - 2} \/ agents[k].y \in {1, H - 2}

\* the grid of an all-zero grid after one bloom of radius 6 and strength 120
\* at the centre
SeedGrid ==
  [c \in Cells |->
    LET x  == (c % W) - (W \div 2)
        y  == (c \div W) - (H \div 2)
        d2 == x * x + y * y
    IN  IF OnBorder(c) \/ d2 > 36 \/ 3 * d2 > 120 THEN 0 ELSE 120 - 3 * d2]

\* C3 (reset): whatever the state reset() is called in, it leaves 4 agents
\* at the centre with life 255 and the four axis directions, step counter 0,
\* the seed grid, the seed point at the centre and the next bright node in
\* [400, 1000); so any two resets agree on grid, pool, seed point and counter.
ResetSeeds ==
  last.op = "reset" =>
    /\ agentCount = 4
    /\ agents = << Agent(W \div 2, H \div 2, 1, 0, 255),
                   Agent(W \div 2, H \div 2, 0, 1, 255),
                   Agent(W \div 2, H \div 2, -1, 0, 255),
                   Agent(W \div 2, H \div 2, 0, -1, 255) >>
    /\ seedX = W \div 2 /\ seedY = H \div 2
    /\ steps = 0
    /\ grid = SeedGrid
    /\ nextBrightNodeStep >= 400 /\ nextBrightNodeStep < 1000

\* reset() was called after a bright node had grown the pool and the grid
ResetSeedsWitness ==
  /\ last.op = "reset"
  /\ last.steps >= 400
  /\ last.count > 4

\* C4 (saturating arithmetic): addIntensity(x, y, a) leaves the cell at
\* min(255, v + a) and every other cell as it was, decay(a) leaves every cell
\* at max(0, v - a), for every byte v and a; all cells stay in 0..255.
SaturatingArithmetic ==
  /\ grid \in [Cells -> 0 .. 255]
  /\ last.op = "addIntensity" =>
       \A c \in Cells :
         grid[c] = IF c # last.y * W + last.x THEN grid0[c]
                   ELSE IF grid0[c] + last.amt > 255 THEN 255
                   ELSE grid0[c] + last.amt
  /\ last.op = "decay" =>
       \A c \in Cells :
         grid[c] = IF grid0[c] - last.amt < 0 THEN 0 ELSE grid0[c] - last.amt

\* an add whose exact sum is above 255 has been applied
SaturatingArithmeticWitness ==
  /\ last.op = "addIntensity"
  /\ grid0[last.y * W + last.x] + last.amt > 255
  /\ grid0[last.y * W + last.x] < 255

\* C7 (bloom falloff): bloom(cx, cy, r, s) adds s - min(s, 3 * d2),
\* saturating at 255, to every interior cell at squared distance d2 <= r * r
\* from (cx, cy) and changes no other cell; on the all-zero grid the centre
\* ends at s and the cells with d2 > r * r stay 0.
BloomFalloff ==
  last.op = "bloom" =>
    /\ \A c \in Cells :
         LET x   == (c % W) - last.cx
             y   == (c \div W) - last.cy
             d2  == x * x + y * y
             add == IF 3 * d2 > last.s THEN 0 ELSE last.s - 3 * d2
         IN  grid[c] = IF OnBorder(c) \/ d2 > last.r * last.r THEN grid0[c]
                       ELSE IF grid0[c] + add > 255 THEN 255
                       ELSE grid0[c] + add
    /\ grid0 = ZeroGrid => grid[last.cy * W + last.cx] = last.s

\* a bloom on the all-zero grid that left an interior cell outside its radius
\* at 0 and lit a cell other than the centre below the full strength
BloomFalloffWitness ==
  /\ last.op = "bloom"
  /\ grid0 = ZeroGrid
  /\ \E c \in Cells :
       /\ ~OnBorder(c)
       /\ ((c % W) - last.cx) * ((c % W) - last.cx)
            + ((c \div W) - last.cy) * ((c \div W) - last.cy) > last.r * last.r
       /\ grid[c] = 0
  /\ \E c \in Cells : grid[c] > 0 /\ grid[c] < last.s

\* the step by which the first bright node has been placed: line 38 draws it
\* below 400 + 600
SustainedSteps == 400 + 600

\* C5 (population floor): once the engine has run SustainedSteps steps since
\* reset(), the number of active agents is never below 8 at the end of two
\* consecutive steps (prevActive is the number at the end of the step before
\* the last).
PopulationFloor ==
  (pc = "idle" /\ steps >= SustainedSteps) =>
    ~(activeCountOf(agents) < 8 /\ prevActive < 8)

\* after sustained operation a step found fewer than 8 active agents at its
\* safety net and ended with at least 8
PopulationFloorWitness ==
  /\ pc = "idle" /\ steps >= SustainedSteps
  /\ last.op = "stepEnd" /\ last.active < 8
  /\ activeCountOf(agents) >= 8

\* C6 as stated (decay cadence): a cell holding v at the end of step 500k-1
\* holds max(0, v - 1) at the end of step 500k.
DecayCadenceAcrossStep ==
  (last.op = "stepEnd" /\ steps > 0 /\ steps % 500 = 0) =>
    \A c \in Cells : grid[c] = IF grid0[c] - 1 < 0 THEN 0 ELSE grid0[c] - 1

\* C6 as amended (decay cadence): step() applies the decay of 1 to every
\* cell if and only if its counter is a positive multiple of 500; a cell
\* holding v when the step reaches its decay, after the step's bright node and
\* agent writes, holds max(0, v - 1) when the step returns, and in every other
\* step the end of the step leaves the grid as it is.
DecayCadence ==
  [][pc = "tail" =>
       IF steps > 0 /\ steps % 500 = 0
       THEN \A c \in Cells : grid'[c] = IF grid[c] - 1 < 0 THEN 0 ELSE grid[c] - 1
       ELSE grid' = grid]_vars

\* a step whose counter is a positive multiple of 500 returned with a cell
\* below the value the step found
DecayCadenceWitness ==
  /\ last.op = "stepEnd"
  /\ steps > 0 /\ steps % 500 = 0
  /\ \E c \in Cells : grid[c] < grid0[c]

\* C8 (bright-node schedule): each step() adds exactly one to the counter; a
\* bright node is placed in a step exactly when the counter reaches the
\* scheduled step, so the counter never passes it; the first node after
\* reset() is at a step in [400, 1000) and two consecutive nodes are at least
\* 600 and fewer than 1800 steps apart.
BrightNodeSchedule ==
  /\ [](/\ steps < nextBrightNodeStep
        /\ (last.op = "stepBegin" => (last.node <=> steps = last.due))
        /\ (Len(nodes) >= 1 => (nodes[1] >= 400 /\ nodes[1] < 1000))
        /\ \A k \in 1 .. Len(nodes) - 1 :
             nodes[k + 1] - nodes[k] >= 600 /\ nodes[k + 1] - nodes[k] < 1800
        /\ (nodes # << >> =>
              nextBrightNodeStep - nodes[Len(nodes)] \in 600 .. 1799))
  /\ [][/\ ((pc = "idle" /\ pc' # "idle") => steps' = steps + 1)
         /\ (pc # "idle" => steps' = steps)]_vars

\* a second bright node has just been placed
BrightNodeScheduleWitness ==
  /\ last.op = "stepBegin" /\ last.node
  /\ Len(nodes) >= 2

\* C9 (capacity exhaustion): a branch drawn on a full pool leaves the count
\* and every other agent as they were; below capacity it appends exactly one
\* agent, at the parent's position, turned a quarter from the parent's
\* heading, with life 140 + draw % 100, and adds one to the count.  A bright
\* node on a full pool leaves the pool as it was; below capacity it keeps the
\* existing agents and appends up to 5.  (The updated agent itself moves: it
\* is the one slot the spawn is not compared on.)
SpawnOrDrop ==
  [][/\ (pc = "agents" /\ agents[i + 1].life > 0 /\ (tape.branch % 1000) < 30) =>
          /\ \A k \in 1 .. agentCount : (k # i + 1 => agents'[k] = agents[k])
          /\ IF agentCount = MAX_AGENTS
             THEN agentCount' = agentCount /\ Len(agents') = Len(agents)
             ELSE /\ agentCount' = agentCount + 1
                  /\ Len(agents') = Len(agents) + 1
                  /\ LET n == agents'[agentCount']
                         p == agents[i + 1]
                         d == turned(p, tape.turn % 1000)
                     IN  /\ n.x = p.x /\ n.y = p.y
                         /\ n.life = 140 + (tape.blife % 100)
                         /\ <<n.dx, n.dy>> \in {<<-d.dy, d.dx>>, <<d.dy, -d.dx>>}
     /\ (pc = "idle" /\ pc' # "idle" /\ last'.node) =>
          /\ \A k \in 1 .. agentCount : agents'[k] = agents[k]
          /\ agentCount' = IF agentCount + 5 > MAX_AGENTS THEN MAX_AGENTS
                           ELSE agentCount + 5
          /\ Len(agents') = agentCount']_vars

\* an active agent has just drawn a branch on a pool that was already full
SpawnOrDropWitness ==
  /\ last.op = "agentUpdate"
  /\ last.slot >= MAX_AGENTS - 1
  /\ agentCount = MAX_AGENTS
  /\ agents[last.slot + 1].life > 0
  /\ (tape.branch % 1000) < 30

\* C10 as stated (slots are never deallocated): no operation lowers the
\* occupied count.
CountNeverShrinks == [][agentCount' >= agentCount]_vars

\* C10 as amended: the occupied count never decreases during step()
\* (branches and bright nodes only add, respawns reuse their slot and leave
\* the count as it is); reset() alone lowers it, to 4.
CountShrinksOnlyOnReset ==
  [][/\ (last'.op # "reset" =>
            agentCount' >= agentCount /\ Len(agents') >= Len(agents))
     /\ (last'.op = "reset" => agentCount' = 4 /\ Len(agents') = 4)
     /\ (pc = "tail" => agentCount' = agentCount /\ Len(agents') = Len(agents))
     /\ ((pc = "agents" /\ (tape.branch % 1000) >= 30) =>
            agentCount' = agentCount /\ Len(agents') = Len(agents))]_vars

\* a safety-net pass has just respawned dormant agents of a pool that bright
\* nodes had grown
CountShrinksOnlyOnResetWitness ==
  /\ last.op = "stepEnd" /\ last.active < 8
  /\ agentCount >= 9
  /\ activeCountOf(agents) > last.active

\* C11 (allocation failure is fatal at construction): when the grid's storage
\* could not be obtained the constructor fails visibly, so nothing after the
\* constructor ever runs on an engine whose grid is missing.
AllocationFailureIsFatal == grid = NullGrid => last.op = "construct"

\* C12 (safety-net pass): at the end of step(), with k the number of active
\* agents after the updates: if k >= 8 the pass changes no agent; if k < 8
\* it respawns dormant agents in increasing slot order (every slot below a
\* respawned one is active afterwards, active agents are left as they are)
\* and the step ends with exactly min(12, agentCount) active agents.  So
\* every step ends with at least min(8, agentCount) active agents.
SafetyNetPass ==
  /\ [](last.op = "stepEnd" =>
          activeCountOf(agents) >= Min(8, agentCount))
  /\ [][pc = "tail" =>
          IF activeCountOf(agents) >= 8 THEN agents' = agents
          ELSE /\ activeCountOf(agents') = Min(12, agentCount)
               /\ Len(agents') = Len(agents)
               /\ \A j \in 1 .. Len(agents) :
                    /\ (agents[j].life > 0 => agents'[j] = agents[j])
                    /\ ((agents[j].life = 0 /\ agents'[j].life > 0) =>
                          \A j2 \in 1 .. j : agents'[j2].life > 0)]_vars

\* a pass that found fewer than 8 active agents in a pool of more than 12
\* has stopped at 12 and left later dormant agents dormant
SafetyNetPassWitness ==
  /\ last.op = "stepEnd" /\ last.active < 8
  /\ agentCount > 12
  /\ activeCountOf(agents) = 12

InInterior(a) == a.x \in 1 .. W - 2 /\ a.y \in 1 .. H - 2

\* C13 (agent containment): after every completed reset() or step(), every
\* occupied slot, active or dormant, has its position in the interior
\* [1, W-2] x [1, H-2].
AgentContainment ==
  pc = "idle" => \A k \in 1 .. Len(agents) : InInterior(agents[k])

\* a step has completed on a pool that reset, branches, bright-node spawns
\* and respawns have filled, with agents on both vertical interior edges, on
\* both horizontal interior edges, and dormant agents among them
AgentContainmentWitness ==
  /\ last.op = "stepEnd"
  /\ agentCount = MAX_AGENTS
  /\ nodes # << >>
  /\ \E k \in 1 .. Len(agents) : agents[k].x = 1
  /\ \E k \in 1 .. Len(agents) : agents[k].x = W - 2
  /\ \E k \in 1 .. Len(agents) : agents[k].y = 1
  /\ \E k \in 1 .. Len(agents) : agents[k].y = H - 2
  /\ \E k \in 1 .. Len(agents) : agents[k].life = 0

\* C14 (aging and bounce): in the per-agent update of an active agent with
\* life L, a move that leaves the interior is clamped into the interior,
\* reverses the direction and leaves life max(0, L - 30); a move that stays
\* inside keeps the new position and the direction and leaves life L - 1.
\* Life rises in an update only by a respawn, and only when the move or bounce
\* has brought it to 0.
AgingAndBounce ==
  [][(pc = "agents" /\ agents[i + 1].life > 0) =>
       LET a  == agents[i + 1]
           b  == agents'[i + 1]
           d  == turned(a, tape.turn % 1000)
           x  == a.x + d.dx
           y  == a.y + d.dy
           L  == a.life
           after == IF OutsideInterior(x, y)
                    THEN IF L > 30 THEN L - 30 ELSE 0
                    ELSE L - 1
       IN  \/ /\ OutsideInterior(x, y)
              /\ b.x = Min(IF x < 1 THEN 1 ELSE x, W - 2)
              /\ b.y = Min(IF y < 1 THEN 1 ELSE y, H - 2)
              /\ b.dx = -d.dx /\ b.dy = -d.dy
              /\ b.life = after
           \/ /\ ~OutsideInterior(x, y)
              /\ b.x = x /\ b.y = y
              /\ b.dx = d.dx /\ b.dy = d.dy
              /\ b.life = after
           \/ /\ after = 0
              /\ b.life >= 200
              /\ (tape.revive % 100) < 15]_vars

\* an agent with more than 30 of life has just bounced off an interior edge
\* and lost 30, the direction it had being reversed
AgingAndBounceWitness ==
  /\ last.op = "agentUpdate"
  /\ last.was.life > 30
  /\ agents[last.slot + 1].life = last.was.life - 30
  /\ agents[last.slot + 1].dx = -last.was.dx
  /\ agents[last.slot + 1].dy = -last.was.dy
  /\ agents[last.slot + 1].x = last.was.x
  /\ agents[last.slot + 1].y = last.was.y
  /\ steps > 300

\* an agent with at most 30 of life has just bounced, reached 0 and been
\* respawned in the same update
AgingRespawnWitness ==
  /\ last.op = "agentUpdate"
  /\ last.was.life \in 2 .. 30
  /\ agents[last.slot + 1].life >= 200

\* the values of esp_random() & 1 and draws that give them (line 77)
SideDraws == {0, 1, 2, 3}

\* C15 (branching): right after a branch the new agent, in the last occupied
\* slot, is at the parent's position, its life is in [140, 240), and its
\* direction is the one the side draw gives, where for the parent's current
\* direction d some draw gives the left turn (-dy, dx) and some draw gives
\* the right turn (dy, -dx).
BranchEitherSide ==
  (last.op = "agentUpdate" /\ agentCount > last.count) =>
    LET d     == turned(last.was, tape.turn % 1000)
        child == agents[agentCount]
    IN  /\ child.x = last.was.x /\ child.y = last.was.y
        /\ child.life \in 140 .. 239
        /\ [dx |-> child.dx, dy |-> child.dy] = branchDir(d, tape.side)
        /\ \E b \in SideDraws : branchDir(d, b) = [dx |-> -d.dy, dy |-> d.dx]
        /\ \E b \in SideDraws : branchDir(d, b) = [dx |-> d.dy, dy |-> -d.dx]

UnitDirs == {<<1, 0>>, <<-1, 0>>, <<0, 1>>, <<0, -1>>}

\* C16 (direction invariant): in every state every occupied slot's direction
\* is one of (1,0), (-1,0), (0,1), (0,-1), never (0,0) and never diagonal.
DirectionInvariant ==
  \A k \in 1 .. Len(agents) : <<agents[k].dx, agents[k].dy>> \in UnitDirs

\* a pool that reset, branches, a bright node and respawns have filled, with
\* agents heading in all four directions, one of them just turned by the
\* random turn of its update
DirectionInvariantWitness ==
  /\ agentCount >= MAX_AGENTS - 2
  /\ nodes # << >>
  /\ \A d \in UnitDirs : \E k \in 1 .. Len(agents) :
       <<agents[k].dx, agents[k].dy>> = d
  /\ last.op = "agentUpdate"
  /\ last.was.life > 1
  /\ agents[last.slot + 1].dx # last.was.dx
  /\ agents[last.slot + 1].dx # -last.was.dx

\* the points the 15 tries of respawnAgent sample on tape t
RespawnCandidates(t) ==
  {<<SampleX(k, t.sx1, t.sx2), SampleY(k, t.sy1, t.sy2)>> : k \in 0 .. 14}

\* agent b is where respawnAgent puts an agent on grid g: on a candidate of
\* intensity 1..199 that no such candidate exceeds, or on the seed when no
\* candidate has such an intensity; headed along an axis, life in [200, 255)
Revived(b, g, t) ==
  LET q == {c \in RespawnCandidates(t) : get(g, c[1], c[2]) \in 1 .. 199}
  IN  /\ IF q = {} THEN b.x = seedX /\ b.y = seedY
         ELSE /\ <<b.x, b.y>> \in q
              /\ \A c \in q : get(g, c[1], c[2]) <= get(g, b.x, b.y)
      /\ (<<b.x, b.y>> = <<seedX, seedY>> \/ get(g, b.x, b.y) \in 1 .. 199)
      /\ <<b.dx, b.dy>> \in UnitDirs
      /\ b.life \in 200 .. 254

\* C17 (biased revival): respawnAgent, called on its own, by an agent's
\* update (the agent's life rises) or by the safety-net pass (a dormant slot
\* becomes active), places the agent, on the grid it reads, at the brightest
\* sampled candidate among those of intensity strictly between 0 and 200, or
\* at the seed if there is none, with a unit direction and a life in
\* [200, 255).
BiasedRevival ==
  [][/\ (pc = "revive") => Revived(agents'[1], grid, tape')
     /\ (pc = "agents"
           /\ agents[i + 1].life > 0
           /\ agents'[i + 1].life > agents[i + 1].life)
         => Revived(agents'[i + 1], grid', tape)
     /\ (pc = "tail")
         => \A k \in 1 .. Len(agents) :
              (agents[k].life = 0 /\ agents'[k].life > 0)
                => Revived(agents'[k], grid', tape)]_vars

\* respawnAgent has just placed an agent on the brighter of two distinct
\* candidates of intensity 1..199, the dimmer one having been sampled first
BiasedRevivalWitness ==
  /\ last.op = "respawnAgent"
  /\ <<agents[1].x, agents[1].y>> # <<seedX, seedY>>
  /\ get(grid, agents[1].x, agents[1].y) \in 1 .. 199
  /\ LET first == <<SampleX(0, tape.sx1, tape.sx2),
                    SampleY(0, tape.sy1, tape.sy2)>>
     IN  /\ get(grid, first[1], first[2]) \in 1 .. 199
         /\ get(grid, first[1], first[2]) < get(grid, agents[1].x, agents[1].y)

\* respawnAgent has just fallen back to the seed, every candidate being dark
\* or at 200 and above
BiasedRevivalSeedWitness ==
  /\ last.op = "respawnAgent"
  /\ <<agents[1].x, agents[1].y>> = <<seedX, seedY>>
  /\ \E c \in RespawnCandidates(tape) : get(grid, c[1], c[2]) = 0
  /\ \E c \in RespawnCandidates(tape) : get(grid, c[1], c[2]) >= 200

\* the points the 20 tries of placeBrightNode sample on tape t
NodeCandidates(t) ==
  {<<SampleX(k, t.nx1, t.nx2), SampleY(k, t.ny1, t.ny2)>> : k \in 0 .. 19}

\* placeBrightNode on tape t turned grid g and pool ags into g2 and ags2: the
\* node is a brightest candidate, or the seed if every candidate is dark; the
\* two blooms are stamped on it; the pool grows at its end by
\* min(5, MAX_AGENTS - Len(ags)) agents, each within 10 cells of the node on
\* either axis and inside the interior, headed along an axis, life in
\* [200, 255)
NodePlaced(g, ags, g2, ags2, t) ==
  \E n \in NodeCandidates(t) \cup {<<seedX, seedY>>} :
    /\ IF \A c \in NodeCandidates(t) : get(g, c[1], c[2]) = 0
       THEN n = <<seedX, seedY>>
       ELSE /\ n \in NodeCandidates(t)
            /\ \A c \in NodeCandidates(t) : get(g, c[1], c[2]) <= get(g, n[1], n[2])
    /\ g2 = bloom(bloom(g, n[1], n[2], 10, 220), n[1], n[2], 18, 90)
    /\ Len(ags2) = Len(ags) + Min(5, MAX_AGENTS - Len(ags))
    /\ \A k \in 1 .. Len(ags) : ags2[k] = ags[k]
    /\ nodeOffset(t.nox) \in -10 .. 10 /\ nodeOffset(t.noy) \in -10 .. 10
    /\ \A k \in Len(ags) + 1 .. Len(ags2) :
         /\ ags2[k].x \in n[1] - 10 .. n[1] + 10
         /\ ags2[k].y \in n[2] - 10 .. n[2] + 10
         /\ ags2[k].x = constrain(n[1] + nodeOffset(t.nox), 2, W - 3)
         /\ ags2[k].y = constrain(n[2] + nodeOffset(t.noy), 2, H - 3)
         /\ InInterior(ags2[k])
         /\ <<ags2[k].dx, ags2[k].dy>> \in UnitDirs
         /\ ags2[k].life \in 200 .. 254

\* C18 (bright-node event): placeBrightNode, called on its own or by a step()
\* whose counter has reached nextBrightNodeStep, picks the brightest of its 20
\* samples, or the seed if all are zero, stamps the blooms (10, 220) and
\* (18, 90) there, and adds exactly min(5, capacity - count) agents, each
\* within the +/-10 square around the node clamped into the interior, with a
\* unit direction and a life in [200, 255).
BrightNodeEvent ==
  [][/\ (pc = "node") => NodePlaced(grid, agents, grid', agents', tape')
     /\ (pc = "idle" /\ steps' = steps + 1 /\ steps' >= nextBrightNodeStep)
         => NodePlaced(grid, agents, grid', agents', tape')]_vars

\* placeBrightNode has just added two agents to a pool of 58, away from the
\* seed, on a grid with a dark and a lit candidate
BrightNodeEventWitness ==
  /\ last.op = "placeBrightNode"
  /\ agentCount = MAX_AGENTS
  /\ prevActive = MAX_AGENTS - 2
  /\ <<agents[MAX_AGENTS].x, agents[MAX_AGENTS].y>> # <<seedX, seedY>>
  /\ \E c \in NodeCandidates(tape) : get(grid0, c[1], c[2]) = 0
  /\ \E c \in NodeCandidates(tape) : get(grid0, c[1], c[2]) > 0

\* C19 (dormant agents are skipped): the update of a slot whose agent has
\* life 0 changes neither the grid nor any slot nor the occupied count; and
\* over a whole step() a slot that was dormant when visited is changed only
\* by the safety-net pass, which acts only when fewer than 8 agents are
\* active after the updates.
DormantSkipped ==
  [][/\ (pc = "agents" /\ agents[i + 1].life = 0)
         => (grid' = grid /\ agents' = agents /\ agentCount' = agentCount)
     /\ (pc = "agents" /\ i + 1 <= Len(agents))
         => \A k \in 1 .. Len(agents) :
              (k # i + 1 /\ agents[k].life = 0) => agents'[k] = agents[k]
     /\ (pc = "tail")
         => \A k \in 1 .. Len(agents) :
              (agents[k].life = 0 /\ agents'[k] # agents[k])
                => (activeCountOf(agents) < 8 /\ agents'[k].life >= 200)]_vars

\* the update has just passed over a dormant slot in a step that goes on to
\* update active ones, the pool holding at least 8 active agents, so that
\* the safety net will leave the slot dormant
DormantSkippedWitness ==
  /\ last.op = "agentUpdate"
  /\ last.was.life = 0
  /\ agents[last.slot + 1] = last.was
  /\ activeCountOf(agents) >= 8
  /\ pc = "agents"

\* the most a cell may lose in the step() whose counter is n
DecayOf(n) == IF n % 500 = 0 THEN 1 ELSE 0

\* C20 (lit cells persist): at every point of a step() and after it no cell
\* is below the value the step found, less 1 if the step's counter is a
\* multiple of 500; and no single operation but reset() lowers a cell, except
\* the end of a multiple-of-500 step, which lowers it by at most 1.
LitCellsPersist ==
  /\ [](pc \in {"idle", "agents", "tail"} =>
          \A c \in Cells : grid[c] >= grid0[c] - DecayOf(steps))
  /\ [][(pc \in {"idle", "agents", "tail"} /\ ~(pc = "idle" /\ steps' = 0)) =>
          \A c \in Cells :
            grid'[c] >= grid[c] - (IF pc = "tail" THEN DecayOf(steps) ELSE 0)]_vars

\* a multiple-of-500 step has just ended: a cell that was at 255 is at 254,
\* and a lit cell below 255 that was written during the step is back at the
\* value the step found
LitCellsPersistWitness ==
  /\ last.op = "stepEnd"
  /\ steps % 500 = 0 /\ steps > 0
  /\ \E c \in Cells : grid0[c] = 255 /\ grid[c] = 254
  /\ \E c \in Cells : grid0[c] \in 1 .. 254 /\ grid[c] = grid0[c]
=============================================================================
